---- MODULE Spec2Model ----
(***************************************************************************)
(* invoiceflow: the ledger (customers, invoices, invoice items, recurring *)
(* templates and their items) and the HTTP handlers of server/routes.ts   *)
(* that read and write it through server/storage.ts.                      *)
(*                                                                         *)
(* Every storage call is one SQL statement (there is no db.transaction in *)
(* storage.ts), so a handler that awaits several statements is a sequence *)
(* of steps that other requests interleave with.  The handlers whose      *)
(* interleavings the properties below are about are modelled statement by *)
(* statement (POST /api/invoices, PATCH /api/invoices/:id,                *)
(* GET /api/invoices/:id, POST /api/recurring-invoices/:id/generate); the *)
(* other handlers are one step each.                                      *)
(*                                                                         *)
(* Amounts are decimal(10,2) values, held as integer hundredths.          *)
(***************************************************************************)
EXTENDS Integers, Sequences, FiniteSets, TLC

\* ------------------------------------------------------------------ bounds
MaxInvoices == 2        \* invoice rows ever inserted (ids 1..MaxInvoices)
MaxTemplates == 1       \* recurring templates ever inserted
MaxProcs == 2           \* requests in flight at once
MaxDeliveries == 2      \* verified checkout events applied to one invoice
                        \* between two user writes of its isPaid

\* ------------------------------------------------------------- value sets
Users == {"A", "B"}
NoUser == "none"                     \* a request without a session
Procs == 1..MaxProcs
InvoiceIds == 1..MaxInvoices
TemplateIds == 1..MaxTemplates
LegacyInvoiceId == MaxInvoices + 1   \* the id of a row older than line items
AllInvoiceIds == InvoiceIds \cup {LegacyInvoiceId}
CustomerIds == {1, 2}

NullId == 0                          \* SQL NULL in an id column / no :id
NullAmount == -1                     \* SQL NULL in invoices.amount
NullDate == <<0, 0, 0>>              \* SQL NULL in a date column
FirstInvoiceNumber == 1001

Frequencies == {"weekly", "monthly", "quarterly", "yearly"}

\* Item lists a request body may carry.  numeric = FALSE is an amount text
\* that passes z.string() but that the decimal(10,2) column rejects.
Item(d, a) == [description |-> d, amount |-> a, numeric |-> TRUE]
BadItem == [description |-> "Design", amount |-> 0, numeric |-> FALSE]
ItemsOne == <<Item("Design", 50000)>>
ItemsTwo == <<Item("Design", 50000), Item("SEO", 30000)>>
ItemsBad == <<BadItem>>

\* ---------------------------------------------------------------- state
VARIABLES
  customers,              \* table customers: id -> row
  invoices,               \* table invoices: id -> row
  invoiceItems,           \* table invoice_items: invoice id -> rows
  recurringInvoices,      \* table recurring_invoices: id -> row
  recurringInvoiceItems,  \* table recurring_invoice_items: template id -> rows
  paymentLinks,           \* the processor's payment links: link id -> link
  nextInvoiceId,          \* next fresh invoices.id
  nextTemplateId,         \* next fresh recurring_invoices.id
  procs,                  \* the requests in flight: position and locals
  resp,                   \* the response of the request that completed last
  versions,               \* history: the (header, items) pairs each invoice
                          \* was given by a completed create or replace
  webhookLog              \* history: per invoice, the verified checkout
                          \* events applied since a user request last wrote
                          \* isPaid

tables == <<customers, invoices, invoiceItems, recurringInvoices,
            recurringInvoiceItems>>
vars == <<customers, invoices, invoiceItems, recurringInvoices,
          recurringInvoiceItems, paymentLinks, nextInvoiceId, nextTemplateId, procs, resp,
          versions, webhookLog>>

\* ------------------------------------------------------------- helpers
Remove(f, S) == [x \in DOMAIN f \ S |-> f[x]]
Put(f, k, v) == [x \in DOMAIN f \cup {k} |-> IF x = k THEN v ELSE f[x]]

\* .set({...data}): the columns named by data are overwritten
SetColumns(row, data) ==
  [c \in DOMAIN row |-> IF c \in DOMAIN data THEN data[c] ELSE row[c]]

RECURSIVE SumAmounts(_)
\* items.reduce((sum, item) => sum + parseFloat(item.amount), 0)
SumAmounts(items) ==
  IF items = <<>> THEN 0
  ELSE items[1].amount + SumAmounts(Tail(items))

\* the rows an insert of `items` writes: description and amount columns
ItemRows(items) ==
  [k \in 1..Len(items) |->
     [description |-> items[k].description, amount |-> items[k].amount]]

\* the decimal(10,2) column accepts the amount texts of `items`
AllNumeric(items) == \A k \in 1..Len(items) : items[k].numeric

Idle == [pc |-> "idle", op |-> "none", caller |-> NoUser, id |-> NullId,
         body |-> <<>>, invoiceNumber |-> 0, invoice |-> NullId,
         row |-> <<>>, customer |-> <<>>]

\* webhookLog of an invoice no verified checkout event was applied to
NoDeliveries == [delivered |-> 0, first |-> "none", transitions |-> 0]

NoResp == [op |-> "none", caller |-> NoUser, id |-> NullId, status |-> 0,
           data |-> <<>>, mail |-> "none"]

\* res.status(status).json(data) of handler op called by caller on :id
Respond(op, caller, id, status, data) ==
  [op |-> op, caller |-> caller, id |-> id, status |-> status, data |-> data,
   mail |-> "none"]

\* ------------------------------------------------------- storage reads
\* getCustomer(id): the row, or undefined (here <<>>)
getCustomer(id) == IF id \in DOMAIN customers THEN customers[id] ELSE <<>>

\* a read that follows the back-reference to the template's current items
getInvoiceItemsOfTemplate(id) ==
  IF id \in DOMAIN invoices /\ invoices[id].recurringInvoiceId \in DOMAIN recurringInvoiceItems
  THEN recurringInvoiceItems[invoices[id].recurringInvoiceId]
  ELSE IF id \in DOMAIN invoiceItems THEN invoiceItems[id] ELSE <<>>

\* getInvoiceItems(invoiceId)
getInvoiceItems(id) ==
  IF id \in DOMAIN invoiceItems THEN invoiceItems[id] ELSE <<>>

\* a read that always answers the stored amount column
EffectiveAmountStored(row, items) == row.amount

\* the total getInvoice and getInvoices compute for a header row and the
\* item rows they fetched for it
EffectiveAmount(row, items) ==
  IF Len(items) > 0 THEN SumAmounts(items) ELSE row.amount

\* what getInvoice / getInvoices return for one invoice
InvoiceView(row, items) ==
  [row |-> row, items |-> items, amount |-> EffectiveAmount(row, items)]

\* getInvoice(id) when both of its selects run without interleaving
getInvoice(id) ==
  IF id \in DOMAIN invoices
  THEN InvoiceView(invoices[id], getInvoiceItems(id))
  ELSE <<>>

\* getInvoices(userId), as a set (the order by createdAt is left out)
getInvoices(u) ==
  {InvoiceView(invoices[i], getInvoiceItems(i)) :
     i \in {j \in DOMAIN invoices : invoices[j].userId = u}}

\* a select without the where clause on userId
NumbersOfAll(u) == {invoices[i].invoiceNumber : i \in DOMAIN invoices}

\* the invoice numbers of user u's invoices
NumbersOf(u) ==
  {invoices[i].invoiceNumber : i \in {j \in DOMAIN invoices : invoices[j].userId = u}}

Max(S) == CHOOSE x \in S : \A y \in S : y <= x

\* getNextInvoiceNumber(userId)
getNextInvoiceNumber(u) ==
  IF NumbersOf(u) # {} THEN Max(NumbersOf(u)) + 1 ELSE FirstInvoiceNumber

\* updateInvoice(id, data): update invoices set data where id = :id
updateInvoice(id, data) ==
  IF id \in DOMAIN invoices
  THEN [invoices EXCEPT ![id] = SetColumns(@, data)]
  ELSE invoices

\* createInvoiceWithItemsSchema.parse(body) succeeds: items has min(1)
createInvoiceWithItemsSchema(body) == Len(body.items) >= 1

\* the pair of an invoice that a create or a replace is meant to write
\* whole, with the owner and the number the header was inserted with
Version(row, items) ==
  [userId |-> row.userId, invoiceNumber |-> row.invoiceNumber,
   customerId |-> row.customerId, date |-> row.date, items |-> items]

\* requests in flight that have still to insert an invoice header
PendingInserts ==
  Cardinality({p \in Procs : procs[p].pc = "insertInvoice"})

CanStartInsert == nextInvoiceId + PendingInserts <= MaxInvoices

\* a new request takes the first free slot
Free(p) ==
  /\ procs[p].pc = "idle"
  /\ \A q \in Procs : q < p => procs[q].pc # "idle"

Finish(p, r) ==
  /\ procs' = [procs EXCEPT ![p] = Idle]
  /\ resp' = r

\* the catch block of the handler that p runs
CatchStatus(op) == IF op = "generate" THEN 500 ELSE 400

\* the catch block: console.error, res.status(400 | 500)
Throw(p) ==
  Finish(p, Respond(procs[p].op, procs[p].caller, procs[p].id,
                    CatchStatus(procs[p].op), <<>>))

\* --------------------------------------------------- POST /api/invoices
\* parse, getNextInvoiceNumber, getCustomer
PostInvoice(p, u, body) ==
  /\ Free(p)
  /\ CanStartInsert
  /\ UNCHANGED <<tables, paymentLinks, nextInvoiceId, nextTemplateId, versions, webhookLog>>
  /\ IF ~createInvoiceWithItemsSchema(body)
     THEN Finish(p, Respond("postInvoice", u, NullId, 400, <<>>))
     ELSE IF getCustomer(body.customerId) = <<>>
     THEN Finish(p, Respond("postInvoice", u, NullId, 404, <<>>))
     ELSE /\ procs' = [procs EXCEPT ![p] =
                 [Idle EXCEPT !.pc = "insertInvoice", !.op = "postInvoice",
                              !.caller = u, !.body = body,
                              !.invoiceNumber = getNextInvoiceNumber(u),
                              !.customer = getCustomer(body.customerId)]]
          /\ UNCHANGED resp

\* the row createInvoiceWithItems inserts for the request p runs
NewInvoiceRow(p) ==
  [id |-> nextInvoiceId,
   userId |-> procs[p].caller,
   customerId |-> procs[p].body.customerId,
   recurringInvoiceId |-> procs[p].id,
   invoiceNumber |-> procs[p].invoiceNumber,
   date |-> procs[p].body.date,
   amount |-> NullAmount,
   isPaid |-> procs[p].body.isPaid,
   stripePaymentLinkId |-> NullId]

\* the foreign keys of the row hold
InvoiceForeignKeys(row) ==
  /\ row.customerId \in DOMAIN customers
  /\ row.recurringInvoiceId = NullId \/ row.recurringInvoiceId \in DOMAIN recurringInvoices

\* createInvoiceWithItems: insert into invoices ... returning
InsertInvoice(p) ==
  /\ procs[p].pc = "insertInvoice"
  /\ UNCHANGED <<customers, recurringInvoices, recurringInvoiceItems,
                 paymentLinks, nextTemplateId>>
  /\ IF InvoiceForeignKeys(NewInvoiceRow(p))
     THEN /\ invoices' = Put(invoices, nextInvoiceId, NewInvoiceRow(p))
          /\ invoiceItems' = Put(invoiceItems, nextInvoiceId, <<>>)
          /\ nextInvoiceId' = nextInvoiceId + 1
          /\ versions' = Put(versions, nextInvoiceId, {Version(NewInvoiceRow(p), <<>>)})
          /\ webhookLog' = Put(webhookLog, nextInvoiceId, NoDeliveries)
          /\ procs' = [procs EXCEPT ![p].pc = "insertItems", ![p].invoice = nextInvoiceId]
          /\ UNCHANGED resp
     ELSE /\ UNCHANGED <<invoices, invoiceItems, nextInvoiceId, versions, webhookLog>>
          /\ Throw(p)

\* createInvoiceWithItems: if (items.length > 0) insert into invoice_items.
\* The insert throws when an amount is not a decimal or when the invoice row
\* is gone (foreign key); the header inserted before stays.
InsertInvoiceItems(p) ==
  /\ procs[p].pc = "insertItems"
  /\ UNCHANGED <<customers, invoices, recurringInvoices, recurringInvoiceItems,
                 paymentLinks, nextInvoiceId, nextTemplateId>>
  /\ LET i == procs[p].invoice
         items == procs[p].body.items
     IN IF Len(items) = 0
        THEN /\ UNCHANGED <<invoiceItems, versions, webhookLog, resp>>
             /\ procs' = [procs EXCEPT ![p].pc = "created"]
        ELSE IF AllNumeric(items) /\ i \in DOMAIN invoices
        THEN /\ invoiceItems' = [invoiceItems EXCEPT ![i] = @ \o ItemRows(items)]
             /\ versions' = [versions EXCEPT ![i] =
                               @ \cup {Version(invoices[i], invoiceItems'[i])}]
             /\ procs' = [procs EXCEPT ![p].pc = "created"]
             /\ UNCHANGED <<resp, webhookLog>>
        ELSE /\ UNCHANGED <<invoiceItems, versions, webhookLog>>
             /\ Throw(p)

\* a handler that lets a failed delivery reach its outer catch
DeliveryStatusThrown(linkOk, mailOk) == IF linkOk /\ mailOk THEN 200 ELSE 500

\* the status answered after the inner try/catch blocks around the payment
\* link and the email: their catch logs and the handler goes on to res.json
DeliveryStatus(linkOk, mailOk) == 200

\* Math.round(parseFloat(totalAmount) * 100) of the items of the request
AmountInCents(items) == SumAmounts(items)

\* POST /api/invoices after createInvoiceWithItems: payment link (best
\* effort), updateInvoice with the link, email (best effort), getInvoice,
\* res.json
PostInvoiceDeliver(p, linkOk, mailOk) ==
  /\ procs[p].pc = "created"
  /\ procs[p].op = "postInvoice"
  /\ UNCHANGED <<customers, invoiceItems, recurringInvoices, recurringInvoiceItems,
                 nextInvoiceId, nextTemplateId, versions, webhookLog>>
  /\ LET i == procs[p].invoice
     IN /\ IF linkOk
           THEN /\ paymentLinks' = Put(paymentLinks, i,
                      [unit_amount |-> AmountInCents(procs[p].body.items),
                       invoiceId |-> i])
                /\ invoices' = updateInvoice(i, [stripePaymentLinkId |-> i])
           ELSE UNCHANGED <<paymentLinks, invoices>>
        /\ procs' = [procs EXCEPT ![p] = Idle]
        /\ resp' = [Respond("postInvoice", procs[p].caller, i,
                            DeliveryStatus(linkOk, mailOk),
                            IF i \in DOMAIN invoices
                            THEN InvoiceView(invoices'[i], getInvoiceItems(i))
                            ELSE <<>>)
                    EXCEPT !.mail = IF mailOk THEN "sent" ELSE "failed"]

\* ------------------------------------------------ GET /api/invoices/:id
\* getInvoice, first select: invoices left join customers where id = :id
GetInvoice(p, u, i) ==
  /\ Free(p)
  /\ UNCHANGED <<tables, paymentLinks, nextInvoiceId, nextTemplateId, versions, webhookLog>>
  /\ IF i \notin DOMAIN invoices
     THEN Finish(p, Respond("getInvoice", u, i, 404, <<>>))
     ELSE /\ procs' = [procs EXCEPT ![p] =
                 [Idle EXCEPT !.pc = "getItems", !.op = "getInvoice",
                              !.caller = u, !.id = i, !.row = invoices[i]]]
          /\ UNCHANGED resp

\* getInvoice, second select: getInvoiceItems(result.id); then res.json
GetInvoiceItems(p) ==
  /\ procs[p].pc = "getItems"
  /\ UNCHANGED <<tables, paymentLinks, nextInvoiceId, nextTemplateId, versions, webhookLog>>
  /\ Finish(p, Respond("getInvoice", procs[p].caller, procs[p].id, 200,
                       InvoiceView(procs[p].row, getInvoiceItems(procs[p].id))))

\* ---------------------------------------------------- GET /api/invoices
ListInvoices(p, u) ==
  /\ Free(p)
  /\ UNCHANGED <<tables, paymentLinks, nextInvoiceId, nextTemplateId, versions, webhookLog>>
  /\ Finish(p, Respond("listInvoices", u, NullId, 200, [invoices |-> getInvoices(u)]))

\* ---------------------------------------------- PATCH /api/invoices/:id
\* a handler without the ownership test
OwnsInvoiceUnchecked(u, row) == TRUE

\* existingInvoice.userId !== req.session.userId is false
OwnsInvoice(u, row) == row.userId = u

\* parse, getInvoice, ownership, getCustomer
PatchInvoice(p, u, i, body) ==
  /\ Free(p)
  /\ UNCHANGED <<tables, paymentLinks, nextInvoiceId, nextTemplateId, versions, webhookLog>>
  /\ IF ~createInvoiceWithItemsSchema(body)
     THEN Finish(p, Respond("patchInvoice", u, i, 400, <<>>))
     ELSE IF getInvoice(i) = <<>>
     THEN Finish(p, Respond("patchInvoice", u, i, 404, <<>>))
     ELSE IF ~OwnsInvoice(u, getInvoice(i).row)
     THEN Finish(p, Respond("patchInvoice", u, i, 403, <<>>))
     ELSE IF getCustomer(body.customerId) = <<>>
             \/ getCustomer(body.customerId).userId # u
     THEN Finish(p, Respond("patchInvoice", u, i, 404, <<>>))
     ELSE /\ procs' = [procs EXCEPT ![p] =
                 [Idle EXCEPT !.pc = "updateInvoice", !.op = "patchInvoice",
                              !.caller = u, !.id = i, !.body = body]]
          /\ UNCHANGED resp

\* updateInvoiceWithItems: update invoices set ... where id = :id returning
UpdateInvoiceHeader(p) ==
  /\ procs[p].pc = "updateInvoice"
  /\ UNCHANGED <<customers, invoiceItems, recurringInvoices, recurringInvoiceItems,
                 paymentLinks, nextInvoiceId, nextTemplateId, versions>>
  /\ LET i == procs[p].id
         data == [customerId |-> procs[p].body.customerId,
                  date |-> procs[p].body.date,
                  isPaid |-> procs[p].body.isPaid]
     IN IF i \notin DOMAIN invoices
        THEN \* if (!updated) return undefined; res.json(undefined)
             /\ UNCHANGED <<invoices, webhookLog>>
             /\ Finish(p, Respond("patchInvoice", procs[p].caller, i, 200, <<>>))
        ELSE IF data.customerId \notin DOMAIN customers
        THEN /\ UNCHANGED <<invoices, webhookLog>>
             /\ Throw(p)
        ELSE /\ invoices' = updateInvoice(i, data)
             /\ webhookLog' = [webhookLog EXCEPT ![i] = NoDeliveries]
             /\ procs' = [procs EXCEPT ![p].pc = "deleteItems",
                                       ![p].row = invoices'[i]]
             /\ UNCHANGED resp

\* updateInvoiceWithItems: delete from invoice_items where invoiceId = :id
DeleteOldItems(p) ==
  /\ procs[p].pc = "deleteItems"
  /\ UNCHANGED <<customers, invoices, recurringInvoices, recurringInvoiceItems,
                 paymentLinks, nextInvoiceId, nextTemplateId, versions, webhookLog, resp>>
  /\ invoiceItems' = IF procs[p].id \in DOMAIN invoiceItems
                     THEN [invoiceItems EXCEPT ![procs[p].id] = <<>>]
                     ELSE invoiceItems
  /\ procs' = [procs EXCEPT ![p].pc = "insertNewItems"]

\* updateInvoiceWithItems: if (items.length > 0) insert into invoice_items;
\* return updated; res.json(updated)
InsertNewItems(p) ==
  /\ procs[p].pc = "insertNewItems"
  /\ UNCHANGED <<customers, invoices, recurringInvoices, recurringInvoiceItems,
                 paymentLinks, nextInvoiceId, nextTemplateId>>
  /\ LET i == procs[p].id
         items == procs[p].body.items
     IN IF AllNumeric(items) /\ i \in DOMAIN invoices
        THEN /\ invoiceItems' = [invoiceItems EXCEPT ![i] = @ \o ItemRows(items)]
             /\ versions' = [versions EXCEPT ![i] =
                               @ \cup {Version(invoices[i], invoiceItems'[i])}]
             /\ UNCHANGED webhookLog
             /\ Finish(p, Respond("patchInvoice", procs[p].caller, i, 200,
                                  [row |-> procs[p].row]))
        ELSE /\ UNCHANGED <<invoiceItems, versions, webhookLog>>
             /\ Throw(p)

\* ----------------------------------- PATCH /api/invoices/:id/mark-paid
MarkPaid(p, u, i, isPaid) ==
  /\ Free(p)
  /\ UNCHANGED <<customers, invoiceItems, recurringInvoices, recurringInvoiceItems,
                 paymentLinks, nextInvoiceId, nextTemplateId, versions>>
  /\ IF getInvoice(i) = <<>>
     THEN /\ UNCHANGED <<invoices, webhookLog>>
          /\ Finish(p, Respond("markPaid", u, i, 404, <<>>))
     ELSE /\ invoices' = updateInvoice(i, [isPaid |-> isPaid])
          /\ webhookLog' = [webhookLog EXCEPT ![i] = NoDeliveries]
          /\ Finish(p, Respond("markPaid", u, i, 200, [row |-> invoices'[i]]))

\* --------------------------------------------- DELETE /api/invoices/:id
\* a delete without the cascade to invoice_items
deleteInvoiceRowsOnly(S) ==
  /\ invoices' = Remove(invoices, S)
  /\ invoiceItems' = invoiceItems

\* delete from invoices where id = :id; invoice_items cascade
deleteInvoiceRows(S) ==
  /\ invoices' = Remove(invoices, S)
  /\ invoiceItems' = Remove(invoiceItems, S)

DeleteInvoice(p, u, i) ==
  /\ Free(p)
  /\ UNCHANGED <<customers, recurringInvoices, recurringInvoiceItems,
                 paymentLinks, nextInvoiceId, nextTemplateId, versions, webhookLog>>
  /\ IF getInvoice(i) = <<>>
     THEN /\ UNCHANGED <<invoices, invoiceItems>>
          /\ Finish(p, Respond("deleteInvoice", u, i, 404, <<>>))
     ELSE IF ~OwnsInvoice(u, getInvoice(i).row)
     THEN /\ UNCHANGED <<invoices, invoiceItems>>
          /\ Finish(p, Respond("deleteInvoice", u, i, 403, <<>>))
     ELSE /\ deleteInvoiceRows({i})
          /\ Finish(p, Respond("deleteInvoice", u, i, 204, <<>>))

\* ------------------------------------- POST /api/invoices/:id/email
\* getInvoice; sendInvoiceEmail to the invoice's customer
EmailInvoice(p, u, i, mailOk) ==
  /\ Free(p)
  /\ UNCHANGED <<tables, paymentLinks, nextInvoiceId, nextTemplateId, versions, webhookLog>>
  /\ IF getInvoice(i) = <<>>
     THEN Finish(p, Respond("emailInvoice", u, i, 404, <<>>))
     ELSE IF ~mailOk
     THEN Finish(p, Respond("emailInvoice", u, i, 500, <<>>))
     ELSE Finish(p, [Respond("emailInvoice", u, i, 200, getInvoice(i))
                     EXCEPT !.mail = "sent"])

\* ----------------------------------- GET /api/invoices/:id/download
DownloadInvoice(p, u, i) ==
  /\ Free(p)
  /\ UNCHANGED <<tables, paymentLinks, nextInvoiceId, nextTemplateId, versions, webhookLog>>
  /\ IF getInvoice(i) = <<>>
     THEN Finish(p, Respond("downloadInvoice", u, i, 404, <<>>))
     ELSE Finish(p, Respond("downloadInvoice", u, i, 200, getInvoice(i)))

\* -------------------------------------------- PATCH /api/customers/:id
\* insertCustomerSchema.parse; updateCustomer(id, data)
PatchCustomer(p, u, c, valid, name) ==
  /\ Free(p)
  /\ UNCHANGED <<invoices, invoiceItems, recurringInvoices, recurringInvoiceItems,
                 paymentLinks, nextInvoiceId, nextTemplateId, versions, webhookLog>>
  /\ IF ~valid
     THEN /\ UNCHANGED customers
          /\ Finish(p, Respond("patchCustomer", u, c, 400, <<>>))
     ELSE IF c \notin DOMAIN customers
     THEN /\ UNCHANGED customers
          /\ Finish(p, Respond("patchCustomer", u, c, 404, <<>>))
     ELSE /\ customers' = [customers EXCEPT ![c] = SetColumns(@, [name |-> name])]
          /\ Finish(p, Respond("patchCustomer", u, c, 200, customers'[c]))

\* ------------------------------------------- DELETE /api/customers/:id
\* the invoices and the templates that reference customer c
InvoicesOfCustomer(c) == {i \in DOMAIN invoices : invoices[i].customerId = c}
TemplatesOfCustomer(c) ==
  {t \in DOMAIN recurringInvoices : recurringInvoices[t].customerId = c}

\* a reference without an on-delete rule
SetNullTemplateSkipped(inv, T) == inv

\* invoices.recurringInvoiceId references recurring_invoices on delete set null
SetNullTemplate(inv, T) ==
  [i \in DOMAIN inv |->
     IF inv[i].recurringInvoiceId \in T
     THEN [inv[i] EXCEPT !.recurringInvoiceId = NullId]
     ELSE inv[i]]

\* deleteCustomer(id): delete from customers; invoices, templates and their
\* items cascade
DeleteCustomer(p, u, c) ==
  /\ Free(p)
  /\ UNCHANGED <<paymentLinks, nextInvoiceId, nextTemplateId, versions, webhookLog>>
  /\ customers' = Remove(customers, {c})
  /\ invoices' = SetNullTemplate(Remove(invoices, InvoicesOfCustomer(c)),
                                 TemplatesOfCustomer(c))
  /\ invoiceItems' = Remove(invoiceItems, InvoicesOfCustomer(c))
  /\ recurringInvoices' = Remove(recurringInvoices, TemplatesOfCustomer(c))
  /\ recurringInvoiceItems' = Remove(recurringInvoiceItems, TemplatesOfCustomer(c))
  /\ Finish(p, Respond("deleteCustomer", u, c, 200, <<>>))

\* ------------------------------------------------- recurring templates
\* getRecurringInvoiceItems(id)
getRecurringInvoiceItems(t) ==
  IF t \in DOMAIN recurringInvoiceItems THEN recurringInvoiceItems[t] ELSE <<>>

\* getRecurringInvoice(id): the row joined with its customer, its items and
\* their total, or undefined (here <<>>)
getRecurringInvoice(t) ==
  IF t \in DOMAIN recurringInvoices
  THEN [row |-> recurringInvoices[t],
        customer |-> getCustomer(recurringInvoices[t].customerId),
        items |-> getRecurringInvoiceItems(t),
        amount |-> SumAmounts(getRecurringInvoiceItems(t))]
  ELSE <<>>

\* createRecurringInvoiceWithItemsSchema.parse(body) succeeds
createRecurringInvoiceWithItemsSchema(body) ==
  /\ Len(body.items) >= 1
  /\ body.frequency \in Frequencies

\* the row createRecurringInvoiceWithItems inserts
NewTemplateRow(u, body) ==
  [id |-> nextTemplateId,
   userId |-> u,
   customerId |-> body.customerId,
   frequency |-> body.frequency,
   startDate |-> body.startDate,
   nextInvoiceDate |-> body.startDate,
   lastInvoiceDate |-> NullDate,
   isActive |-> body.isActive]

\* POST /api/recurring-invoices
PostRecurringInvoice(p, u, body) ==
  /\ Free(p)
  /\ nextTemplateId <= MaxTemplates
  /\ UNCHANGED <<customers, invoices, invoiceItems, paymentLinks, nextInvoiceId,
                 versions, webhookLog>>
  /\ IF ~createRecurringInvoiceWithItemsSchema(body)
     THEN /\ UNCHANGED <<recurringInvoices, recurringInvoiceItems, nextTemplateId>>
          /\ Finish(p, Respond("postRecurring", u, NullId, 400, <<>>))
     ELSE IF getCustomer(body.customerId) = <<>>
     THEN /\ UNCHANGED <<recurringInvoices, recurringInvoiceItems, nextTemplateId>>
          /\ Finish(p, Respond("postRecurring", u, NullId, 404, <<>>))
     ELSE /\ recurringInvoices' =
               Put(recurringInvoices, nextTemplateId, NewTemplateRow(u, body))
          /\ nextTemplateId' = nextTemplateId + 1
          /\ IF AllNumeric(body.items)
             THEN /\ recurringInvoiceItems' =
                       Put(recurringInvoiceItems, nextTemplateId, ItemRows(body.items))
                  /\ Finish(p, Respond("postRecurring", u, nextTemplateId, 200,
                                       [row |-> NewTemplateRow(u, body)]))
             ELSE /\ recurringInvoiceItems' =
                       Put(recurringInvoiceItems, nextTemplateId, <<>>)
                  /\ Finish(p, Respond("postRecurring", u, nextTemplateId, 400, <<>>))

\* GET /api/recurring-invoices/:id
GetRecurringInvoice(p, u, t) ==
  /\ Free(p)
  /\ UNCHANGED <<tables, paymentLinks, nextInvoiceId, nextTemplateId, versions, webhookLog>>
  /\ IF getRecurringInvoice(t) = <<>>
     THEN Finish(p, Respond("getRecurring", u, t, 404, <<>>))
     ELSE Finish(p, Respond("getRecurring", u, t, 200, getRecurringInvoice(t)))

\* the columns of a PATCH body: everything in req.body but items
Columns(body) == [c \in DOMAIN body \ {"items"} |-> body[c]]

\* the foreign keys of a template row hold
TemplateForeignKeys(row) ==
  /\ row.customerId \in DOMAIN customers
  /\ row.userId \in Users

\* PATCH /api/recurring-invoices/:id: req.body is not validated; with items
\* updateRecurringInvoiceWithItems, without them updateRecurringInvoice
PatchRecurringInvoice(p, u, t, body) ==
  /\ Free(p)
  /\ UNCHANGED <<customers, invoices, invoiceItems, paymentLinks, nextInvoiceId,
                 nextTemplateId, versions, webhookLog>>
  /\ IF getRecurringInvoice(t) = <<>>
     THEN /\ UNCHANGED <<recurringInvoices, recurringInvoiceItems>>
          /\ Finish(p, Respond("patchRecurring", u, t, 404, <<>>))
     ELSE IF ~TemplateForeignKeys(SetColumns(recurringInvoices[t], Columns(body)))
     THEN /\ UNCHANGED <<recurringInvoices, recurringInvoiceItems>>
          /\ Finish(p, Respond("patchRecurring", u, t, 500, <<>>))
     ELSE /\ recurringInvoices' =
               [recurringInvoices EXCEPT ![t] = SetColumns(@, Columns(body))]
          /\ IF "items" \notin DOMAIN body
             THEN /\ UNCHANGED recurringInvoiceItems
                  /\ Finish(p, Respond("patchRecurring", u, t, 200,
                                       [row |-> recurringInvoices'[t]]))
             ELSE IF AllNumeric(body.items)
             THEN /\ recurringInvoiceItems' =
                       [recurringInvoiceItems EXCEPT ![t] = ItemRows(body.items)]
                  /\ Finish(p, Respond("patchRecurring", u, t, 200,
                                       [row |-> recurringInvoices'[t]]))
             ELSE /\ recurringInvoiceItems' =
                       [recurringInvoiceItems EXCEPT ![t] = <<>>]
                  /\ Finish(p, Respond("patchRecurring", u, t, 500, <<>>))

\* DELETE /api/recurring-invoices/:id: deleteRecurringInvoice(id); the items
\* cascade, the invoices generated from it keep a null reference
DeleteRecurringInvoice(p, u, t) ==
  /\ Free(p)
  /\ UNCHANGED <<customers, invoiceItems, paymentLinks, nextInvoiceId,
                 nextTemplateId, versions, webhookLog>>
  /\ recurringInvoices' = Remove(recurringInvoices, {t})
  /\ recurringInvoiceItems' = Remove(recurringInvoiceItems, {t})
  /\ invoices' = SetNullTemplate(invoices, {t})
  /\ Finish(p, Respond("deleteRecurring", u, t, 200, <<>>))

\* --------------------------------------------- calculateNextInvoiceDate
\* Dates are <<year, month, day>>; new Date("YYYY-MM-DD") is that day at
\* 00:00 UTC and toISOString().split('T')[0] is its UTC day.
IsLeapYear(y) == (y % 4 = 0 /\ y % 100 # 0) \/ y % 400 = 0

DaysInMonth(y, m) ==
  IF m = 2 THEN (IF IsLeapYear(y) THEN 29 ELSE 28)
  ELSE IF m \in {4, 6, 9, 11} THEN 30 ELSE 31

RECURSIVE MakeDay(_, _, _)
\* the calendar day of year y, month m (1-based, may exceed 12), day d (may
\* exceed the month's length): what Date's setters normalise to
MakeDay(y, m, d) ==
  IF m > 12 THEN MakeDay(y + 1, m - 12, d)
  ELSE IF d > DaysInMonth(y, m) THEN MakeDay(y, m + 1, d - DaysInMonth(y, m))
  ELSE <<y, m, d>>

\* a switch in which no case matches
calculateNextInvoiceDateUnmoved(frequency, currentDate) == currentDate

calculateNextInvoiceDate(frequency, currentDate) ==
  LET y == currentDate[1]
      m == currentDate[2]
      d == currentDate[3]
  IN CASE frequency = "weekly" -> MakeDay(y, m, d + 7)
       [] frequency = "monthly" -> MakeDay(y, m + 1, d)
       [] frequency = "quarterly" -> MakeDay(y, m + 3, d)
       [] frequency = "yearly" -> MakeDay(y + 1, m, d)
       [] OTHER -> currentDate

\* ------------------------------ POST /api/recurring-invoices/:id/generate
\* the items of the template as the items of a createInvoiceWithItems call
CopyItems(rows) ==
  [k \in 1..Len(rows) |-> Item(rows[k].description, rows[k].amount)]

\* a handler without the isActive test
TemplateActiveUnchecked(rec) == TRUE

\* !recurringInvoice.isActive is false
TemplateActive(rec) == rec.row.isActive

\* getRecurringInvoice, the two checks, getNextInvoiceNumber; today is
\* new Date().toISOString().split('T')[0]
Generate(p, u, t, today) ==
  /\ Free(p)
  /\ CanStartInsert
  /\ UNCHANGED <<tables, paymentLinks, nextInvoiceId, nextTemplateId, versions, webhookLog>>
  /\ LET rec == getRecurringInvoice(t)
     IN IF rec = <<>> \/ rec.customer = <<>>
        THEN Finish(p, Respond("generate", u, t, 404, <<>>))
        ELSE IF ~TemplateActive(rec)
        THEN Finish(p, Respond("generate", u, t, 400, <<>>))
        ELSE /\ procs' = [procs EXCEPT ![p] =
                    [Idle EXCEPT !.pc = "insertInvoice", !.op = "generate",
                                 !.caller = u, !.id = t,
                                 !.body = [customerId |-> rec.row.customerId,
                                           date |-> today,
                                           isPaid |-> FALSE,
                                           items |-> CopyItems(rec.items)],
                                 !.invoiceNumber = getNextInvoiceNumber(u),
                                 !.row = rec.row,
                                 !.customer = rec.customer]]
             /\ UNCHANGED resp

\* an update that forgets lastInvoiceDate
updateRecurringInvoiceNextDateOnly(t, nextDate, lastDate) ==
  IF t \in DOMAIN recurringInvoices
  THEN [recurringInvoices EXCEPT ![t].nextInvoiceDate = nextDate]
  ELSE recurringInvoices

\* updateRecurringInvoiceNextDate(id, nextDate, lastDate)
updateRecurringInvoiceNextDate(t, nextDate, lastDate) ==
  IF t \in DOMAIN recurringInvoices
  THEN [recurringInvoices EXCEPT ![t].nextInvoiceDate = nextDate,
                                 ![t].lastInvoiceDate = lastDate]
  ELSE recurringInvoices

\* generate after createInvoiceWithItems: advance the template (the write
\* may fail: catch, 500), email (best effort), res.json(invoice)
GenerateAdvance(p, dbOk, mailOk) ==
  /\ procs[p].pc = "created"
  /\ procs[p].op = "generate"
  /\ UNCHANGED <<customers, invoices, invoiceItems, recurringInvoiceItems,
                 paymentLinks, nextInvoiceId, nextTemplateId, versions, webhookLog>>
  /\ IF dbOk
     THEN /\ recurringInvoices' =
               updateRecurringInvoiceNextDate(procs[p].id,
                  calculateNextInvoiceDate(procs[p].row.frequency, procs[p].body.date),
                  procs[p].body.date)
          /\ Finish(p, [Respond("generate", procs[p].caller, procs[p].id,
                                DeliveryStatus(TRUE, mailOk),
                                [invoice |-> procs[p].invoice])
                        EXCEPT !.mail = IF mailOk THEN "sent" ELSE "failed"])
     ELSE /\ UNCHANGED recurringInvoices
          /\ Throw(p)

\* ------------------------------------------- POST /api/stripe/webhook
CheckoutCompleted == "checkout.session.completed"

\* an event: its type, session.metadata.invoiceId (NullId when absent),
\* whether session.payment_intent is set, whether paymentIntents.retrieve
\* answers, and the invoiceId in the payment intent's metadata
Event(ty, s, pi, ok, i) ==
  [type |-> ty, sessionInvoiceId |-> s, hasPaymentIntent |-> pi,
   retrieveOk |-> ok, intentInvoiceId |-> i]

\* the events told apart by the handler: the id in the session, or no id in
\* the session and none, an unreachable or a reachable payment intent
Events ==
  {Event(ty, s, FALSE, TRUE, NullId) :
     ty \in {CheckoutCompleted, "other"}, s \in {NullId} \cup AllInvoiceIds}
  \cup {Event(CheckoutCompleted, NullId, TRUE, FALSE, NullId)}
  \cup {Event(CheckoutCompleted, NullId, TRUE, TRUE, i) :
          i \in {NullId} \cup AllInvoiceIds}

\* how a request reaches the webhook: whether the secret is configured,
\* req.rawBody is set and the stripe-signature header verifies. The handler
\* tells four cases apart: no secret, no raw body, a signature that is
\* missing or wrong, and a verified request.
Arrivals ==
  {a \in [secret : BOOLEAN, rawBody : BOOLEAN, sigOk : BOOLEAN] :
     /\ ~a.secret => a.rawBody /\ a.sigOk
     /\ ~a.rawBody => a.sigOk}

\* a handler that reads the session metadata only
CarriedBySession(ev) == ev.sessionInvoiceId

\* a handler that falls back to the oldest invoice when the event names none
CarriedOrFirst(ev) ==
  IF ev.sessionInvoiceId # NullId THEN ev.sessionInvoiceId
  ELSE IF ev.hasPaymentIntent /\ ev.intentInvoiceId # NullId THEN ev.intentInvoiceId
  ELSE 1

\* the invoice id an event carries, in the session or the payment intent
Carried(ev) ==
  IF ev.sessionInvoiceId # NullId THEN ev.sessionInvoiceId
  ELSE IF ev.hasPaymentIntent THEN ev.intentInvoiceId
  ELSE NullId

\* a handler that takes every request as verified
VerifySignatureSkipped(rawBody, sigOk) == TRUE

\* the try block around stripe.webhooks.constructEvent succeeds: req.rawBody
\* is set and the stripe-signature header verifies against the secret
VerifySignature(rawBody, sigOk) == rawBody /\ sigOk

\* the log entry after a verified checkout event was applied to a row whose
\* flag was wasPaid
Delivered(log, wasPaid) ==
  [delivered |-> log.delivered + 1,
   first |-> IF log.delivered = 0
             THEN (IF wasPaid THEN "paid" ELSE "unpaid")
             ELSE log.first,
   transitions |-> log.transitions + (IF wasPaid THEN 0 ELSE 1)]

\* a write that flips the flag of the row it finds
PaidDataToggle(row) == [isPaid |-> ~row.isPaid]

\* the data of storage.updateInvoice(invoiceId, { isPaid: true }), whatever
\* the row holds
PaidData(row) == [isPaid |-> TRUE]

\* secret: STRIPE_WEBHOOK_SECRET is configured; ev: the event of the body
StripeWebhook(p, secret, rawBody, sigOk, ev) ==
  /\ Free(p)
  /\ UNCHANGED <<customers, invoiceItems, recurringInvoices, recurringInvoiceItems,
                 paymentLinks, nextInvoiceId, nextTemplateId, versions>>
  /\ IF ~secret
     THEN /\ UNCHANGED <<invoices, webhookLog>>
          /\ Finish(p, Respond("webhook", NoUser, Carried(ev), 500, <<>>))
     ELSE IF ~VerifySignature(rawBody, sigOk)
     THEN /\ UNCHANGED <<invoices, webhookLog>>
          /\ Finish(p, Respond("webhook", NoUser, Carried(ev), 400, <<>>))
     ELSE IF ev.type # CheckoutCompleted
     THEN /\ UNCHANGED <<invoices, webhookLog>>
          /\ Finish(p, Respond("webhook", NoUser, Carried(ev), 200, <<>>))
     ELSE IF ev.sessionInvoiceId = NullId /\ ev.hasPaymentIntent /\ ~ev.retrieveOk
     THEN /\ UNCHANGED <<invoices, webhookLog>>
          /\ Finish(p, Respond("webhook", NoUser, Carried(ev), 500, <<>>))
     ELSE IF Carried(ev) = NullId
     THEN /\ UNCHANGED <<invoices, webhookLog>>
          /\ Finish(p, Respond("webhook", NoUser, Carried(ev), 400, <<>>))
     ELSE IF Carried(ev) \notin DOMAIN invoices
     THEN /\ UNCHANGED <<invoices, webhookLog>>
          /\ Finish(p, Respond("webhook", NoUser, Carried(ev), 404, <<>>))
     ELSE /\ webhookLog[Carried(ev)].delivered < MaxDeliveries
          /\ invoices' = updateInvoice(Carried(ev), PaidData(invoices[Carried(ev)]))
          /\ webhookLog' = [webhookLog EXCEPT ![Carried(ev)] =
                              Delivered(@, invoices[Carried(ev)].isPaid)]
          /\ Finish(p, Respond("webhook", NoUser, Carried(ev), 200, <<>>))

\* ---------------------------------------------------------- requireAuth
\* a request without req.session.userId to any route behind requireAuth
RequireAuth(p, op, i) ==
  /\ Free(p)
  /\ UNCHANGED <<tables, paymentLinks, nextInvoiceId, nextTemplateId, versions, webhookLog>>
  /\ Finish(p, Respond(op, NoUser, i, 401, <<>>))

\* ----------------------------------------------------------------- Init
\* Two users with one customer each, and possibly one invoice written
\* before line items existed (service/amount columns, no item rows).
LegacyInvoice ==
  [id |-> LegacyInvoiceId, userId |-> "A", customerId |-> 1,
   recurringInvoiceId |-> NullId, invoiceNumber |-> FirstInvoiceNumber,
   date |-> <<2025, 1, 15>>, amount |-> 70000, isPaid |-> FALSE,
   stripePaymentLinkId |-> NullId]

InitWith(legacy) ==
  /\ customers = [c \in CustomerIds |->
                    [id |-> c, userId |-> IF c = 1 THEN "A" ELSE "B",
                     name |-> "Acme"]]
  /\ invoices = IF legacy THEN [i \in {LegacyInvoiceId} |-> LegacyInvoice]
                ELSE <<>>
  /\ invoiceItems = IF legacy THEN [i \in {LegacyInvoiceId} |-> <<>>] ELSE <<>>
  /\ versions = IF legacy
                THEN [i \in {LegacyInvoiceId} |-> {Version(LegacyInvoice, <<>>)}]
                ELSE <<>>
  /\ webhookLog = IF legacy THEN [i \in {LegacyInvoiceId} |-> NoDeliveries]
                  ELSE <<>>
  /\ recurringInvoices = <<>>
  /\ recurringInvoiceItems = <<>>
  /\ paymentLinks = <<>>
  /\ nextInvoiceId = 1
  /\ nextTemplateId = 1
  /\ procs = [p \in Procs |-> Idle]
  /\ resp = NoResp

Init == InitWith(FALSE)

\* ------------------------------------------------------ specifications
\* no request is in flight
AllIdle == \A q \in Procs : procs[q].pc = "idle"

\* no POST or PATCH of an invoice is in flight
NoWriter == \A q \in Procs : procs[q].op \notin {"postInvoice", "patchInvoice"}

\* Creation: concurrent POST /api/invoices and DELETE /api/invoices/:id on
\* a ledger without legacy rows.
CreateBodies ==
  [customerId : CustomerIds, date : {<<2025, 1, 15>>}, isPaid : BOOLEAN,
   items : {<<>>, ItemsOne, ItemsBad}]

NextCreate ==
  \/ \E p \in Procs : Free(p) /\ \E u \in Users, body \in CreateBodies :
        PostInvoice(p, u, body)
  \/ \E p \in Procs : InsertInvoice(p)
  \/ \E p \in Procs : InsertInvoiceItems(p)
  \/ \E p \in Procs, linkOk \in BOOLEAN : PostInvoiceDeliver(p, linkOk, TRUE)
  \/ \E p \in Procs : Free(p) /\ \E u \in Users, i \in InvoiceIds :
        DeleteInvoice(p, u, i)

SpecCreate == Init /\ [][NextCreate]_vars

\* Replace: one PATCH /api/invoices/:id at a time against concurrent readers
\* and deletes, on one invoice that user A creates with one item and on a
\* legacy row of user A.
UnknownCustomerIds == {3}
FirstBodies ==
  [customerId : {1}, date : {<<2025, 1, 15>>}, isPaid : {FALSE}, items : {ItemsOne}]
ReplaceBodies ==
  [customerId : CustomerIds \cup UnknownCustomerIds, date : {<<2025, 1, 31>>},
   isPaid : {FALSE}, items : {<<>>, ItemsTwo}]

NextReplace ==
  \/ \E p \in Procs : Free(p) /\ NoWriter /\ nextInvoiceId = 1
        /\ \E body \in FirstBodies : PostInvoice(p, "A", body)
  \/ \E p \in Procs : InsertInvoice(p)
  \/ \E p \in Procs : InsertInvoiceItems(p)
  \/ \E p \in Procs : PostInvoiceDeliver(p, FALSE, TRUE)
  \/ \E p \in Procs : Free(p) /\ NoWriter
        /\ \E u \in Users, i \in AllInvoiceIds, body \in ReplaceBodies :
             PatchInvoice(p, u, i, body)
  \/ \E p \in Procs : UpdateInvoiceHeader(p)
  \/ \E p \in Procs : DeleteOldItems(p)
  \/ \E p \in Procs : InsertNewItems(p)
  \/ \E p \in Procs : Free(p) /\ \E i \in AllInvoiceIds : GetInvoice(p, "A", i)
  \/ \E p \in Procs : GetInvoiceItems(p)
  \/ \E p \in Procs : Free(p) /\ ListInvoices(p, "A")
  \/ \E p \in Procs : Free(p) /\ \E u \in Users, i \in AllInvoiceIds :
        DeleteInvoice(p, u, i)

SpecReplace == InitWith(TRUE) /\ [][NextReplace]_vars

\* Reconciliation: the payment webhook against invoices of user A, with
\* mark-paid and delete.
NextWebhook ==
  \/ \E p \in Procs : Free(p) /\ NoWriter
        /\ \E body \in FirstBodies : PostInvoice(p, "A", body)
  \/ \E p \in Procs : InsertInvoice(p)
  \/ \E p \in Procs : InsertInvoiceItems(p)
  \/ \E p \in Procs : PostInvoiceDeliver(p, TRUE, TRUE)
  \/ \E p \in Procs : Free(p) /\ \E a \in Arrivals, ev \in Events :
        StripeWebhook(p, a.secret, a.rawBody, a.sigOk, ev)
  \/ \E p \in Procs : Free(p) /\ \E i \in InvoiceIds, b \in BOOLEAN :
        MarkPaid(p, "A", i, b)
  \/ \E p \in Procs : Free(p) /\ \E i \in InvoiceIds : DeleteInvoice(p, "A", i)

SpecWebhook == Init /\ [][NextWebhook]_vars

\* Tenancy: every handler behind requireAuth, one request at a time. User B
\* creates a template for B's customer and one invoice, posted or generated;
\* either user calls the other handlers on them.
Owner == "B"
OwnerCustomers == {c \in CustomerIds : c = 2}
OwnerBodies ==
  [customerId : OwnerCustomers, date : {<<2025, 1, 15>>}, isPaid : {FALSE},
   items : {ItemsOne}]
TemplateBodies ==
  [customerId : OwnerCustomers, frequency : {"monthly"},
   startDate : {<<2025, 1, 15>>}, isActive : {TRUE}, items : {<<>>, ItemsOne}]
TemplatePatches == {[isActive |-> FALSE], [items |-> ItemsTwo]}
Today == {<<2025, 1, 31>>}

Next ==
  \/ \E p \in Procs : AllIdle /\ nextInvoiceId = 1
        /\ \E body \in OwnerBodies : PostInvoice(p, Owner, body)
  \/ \E p \in Procs : InsertInvoice(p)
  \/ \E p \in Procs : InsertInvoiceItems(p)
  \/ \E p \in Procs : PostInvoiceDeliver(p, TRUE, TRUE)
  \/ \E p \in Procs : AllIdle /\ \E u \in Users, i \in InvoiceIds : GetInvoice(p, u, i)
  \/ \E p \in Procs : GetInvoiceItems(p)
  \/ \E p \in Procs : AllIdle /\ \E u \in Users, i \in InvoiceIds, body \in OwnerBodies :
        PatchInvoice(p, u, i, body)
  \/ \E p \in Procs : UpdateInvoiceHeader(p)
  \/ \E p \in Procs : DeleteOldItems(p)
  \/ \E p \in Procs : InsertNewItems(p)
  \/ \E p \in Procs : AllIdle /\ \E u \in Users, i \in InvoiceIds : MarkPaid(p, u, i, TRUE)
  \/ \E p \in Procs : AllIdle /\ \E u \in Users, i \in InvoiceIds :
        EmailInvoice(p, u, i, TRUE)
  \/ \E p \in Procs : AllIdle /\ \E u \in Users, i \in InvoiceIds :
        DownloadInvoice(p, u, i)
  \/ \E p \in Procs : AllIdle /\ \E u \in Users, i \in InvoiceIds : DeleteInvoice(p, u, i)
  \/ \E p \in Procs : AllIdle /\ \E u \in Users, c \in OwnerCustomers, valid \in BOOLEAN :
        PatchCustomer(p, u, c, valid, "Beta")
  \/ \E p \in Procs : AllIdle /\ \E u \in Users, c \in OwnerCustomers :
        DeleteCustomer(p, u, c)
  \/ \E p \in Procs : AllIdle /\ \E body \in TemplateBodies :
        PostRecurringInvoice(p, Owner, body)
  \/ \E p \in Procs : AllIdle /\ \E u \in Users, t \in TemplateIds :
        GetRecurringInvoice(p, u, t)
  \/ \E p \in Procs : AllIdle /\ \E u \in Users, t \in TemplateIds,
        body \in TemplatePatches : PatchRecurringInvoice(p, u, t, body)
  \/ \E p \in Procs : AllIdle /\ \E u \in Users, t \in TemplateIds :
        DeleteRecurringInvoice(p, u, t)
  \/ \E p \in Procs : AllIdle /\ nextInvoiceId = 1
        /\ \E u \in Users, t \in TemplateIds, today \in Today : Generate(p, u, t, today)
  \/ \E p \in Procs : GenerateAdvance(p, TRUE, TRUE)
  \/ \E p \in Procs : AllIdle /\ \E i \in InvoiceIds : RequireAuth(p, "getInvoice", i)

Spec == Init /\ [][Next]_vars

\* Generation: user A's template for A's customer, generated from on one of
\* two days, patched and deleted, beside posted invoices and deletes of
\* invoices; one request at a time, with the email sender, the payment-link
\* creator and the write that advances the template failing or not.
GenerateBodies ==
  [customerId : {1}, frequency : Frequencies, startDate : {<<2025, 1, 15>>},
   isActive : BOOLEAN, items : {ItemsOne}]
GeneratePatches == {[isActive |-> FALSE], [items |-> ItemsTwo]}
GenerateDays == {<<2025, 1, 15>>, <<2025, 1, 31>>}

NextGenerate ==
  \/ \E p \in Procs : AllIdle /\ \E body \in GenerateBodies :
        PostRecurringInvoice(p, "A", body)
  \/ \E p \in Procs : AllIdle /\ \E t \in TemplateIds, body \in GeneratePatches :
        PatchRecurringInvoice(p, "A", t, body)
  \/ \E p \in Procs : AllIdle /\ \E t \in TemplateIds : DeleteRecurringInvoice(p, "A", t)
  \/ \E p \in Procs : AllIdle /\ \E t \in TemplateIds, today \in GenerateDays :
        Generate(p, "A", t, today)
  \/ \E p \in Procs : InsertInvoice(p)
  \/ \E p \in Procs : InsertInvoiceItems(p)
  \/ \E p \in Procs, dbOk \in BOOLEAN, mailOk \in BOOLEAN : GenerateAdvance(p, dbOk, mailOk)
  \/ \E p \in Procs : AllIdle /\ \E body \in FirstBodies : PostInvoice(p, "A", body)
  \/ \E p \in Procs, linkOk \in BOOLEAN, mailOk \in BOOLEAN :
        PostInvoiceDeliver(p, linkOk, mailOk)
  \/ \E p \in Procs : AllIdle /\ \E i \in InvoiceIds : DeleteInvoice(p, "A", i)

SpecGenerate == Init /\ [][NextGenerate]_vars

\* Schedule: user A's active template, starting on the first day generate is
\* called or two months later; PATCH bodies, which the handler does not
\* validate, that name an empty item list or the two schedule columns;
\* generate on one of two days, with the write that advances the template
\* failing or not; one request at a time.
ScheduleBodies ==
  [customerId : {1}, frequency : Frequencies,
   startDate : {<<2025, 1, 15>>, <<2025, 3, 15>>},
   isActive : {TRUE}, items : {ItemsOne}]
SchedulePatches ==
  {[items |-> <<>>],
   [nextInvoiceDate |-> <<2025, 6, 1>>, lastInvoiceDate |-> <<2025, 5, 1>>]}

NextSchedule ==
  \/ \E p \in Procs : AllIdle /\ \E body \in ScheduleBodies :
        PostRecurringInvoice(p, "A", body)
  \/ \E p \in Procs : AllIdle /\ \E t \in TemplateIds, body \in SchedulePatches :
        PatchRecurringInvoice(p, "A", t, body)
  \/ \E p \in Procs : AllIdle /\ \E t \in TemplateIds, today \in GenerateDays :
        Generate(p, "A", t, today)
  \/ \E p \in Procs : InsertInvoice(p)
  \/ \E p \in Procs : InsertInvoiceItems(p)
  \/ \E p \in Procs, dbOk \in BOOLEAN : GenerateAdvance(p, dbOk, TRUE)

SpecSchedule == Init /\ [][NextSchedule]_vars

\* Payment links: user A's invoices, posted with a payment link or without,
\* and their replacement by PATCH /api/invoices/:id; one request at a time.
LinkBodies ==
  [customerId : {1}, date : {<<2025, 1, 15>>}, isPaid : {FALSE},
   items : {ItemsOne, ItemsTwo}]

NextLink ==
  \/ \E p \in Procs : AllIdle /\ \E body \in LinkBodies : PostInvoice(p, "A", body)
  \/ \E p \in Procs : InsertInvoice(p)
  \/ \E p \in Procs : InsertInvoiceItems(p)
  \/ \E p \in Procs, linkOk \in BOOLEAN : PostInvoiceDeliver(p, linkOk, TRUE)
  \/ \E p \in Procs : AllIdle /\ \E i \in InvoiceIds, body \in LinkBodies :
        PatchInvoice(p, "A", i, body)
  \/ \E p \in Procs : UpdateInvoiceHeader(p)
  \/ \E p \in Procs : DeleteOldItems(p)
  \/ \E p \in Procs : InsertNewItems(p)

SpecLink == Init /\ [][NextLink]_vars

\* Dates: calculateNextInvoiceDate applied once to a frequency and a day of
\* two years, one of them a leap year; the result is kept in resp.
Years == {2024, 2025}
Days ==
  {day \in Years \X (1..12) \X (1..31) : day[3] <= DaysInMonth(day[1], day[2])}

NextOccurrence(frequency, currentDate) ==
  /\ resp.op = "none"
  /\ resp' = Respond("nextOccurrence", NoUser, NullId, 0,
                     [frequency |-> frequency, currentDate |-> currentDate,
                      nextDate |-> calculateNextInvoiceDate(frequency, currentDate)])
  /\ UNCHANGED <<tables, paymentLinks, nextInvoiceId, nextTemplateId, procs,
                 versions, webhookLog>>

NextDates == \E frequency \in Frequencies, currentDate \in Days :
               NextOccurrence(frequency, currentDate)

SpecDates == Init /\ [][NextDates]_vars

\* ================================================================ claims
\* ---------------------------------------------------------------- C1
\* C1: in no reachable state do two invoices of the same user carry the same
\* invoiceNumber, however the creations of that user interleave.
C1_DistinctInvoiceNumbers ==
  \A i, j \in DOMAIN invoices :
    (i # j /\ invoices[i].userId = invoices[j].userId)
      => invoices[i].invoiceNumber # invoices[j].invoiceNumber

\* ---------------------------------------------------------------- C7
\* C7: createInvoiceWithItems writes header and items as one unit: every
\* invoice whose creation is over (no request stands between its header
\* insert and its item insert) has the items it was submitted with, so at
\* least one.
C7_NoOrphanHeader ==
  \A i \in DOMAIN invoices :
    (\A p \in Procs : ~(procs[p].pc = "insertItems" /\ procs[p].invoice = i))
      => Len(invoiceItems[i]) >= 1

\* ---------------------------------------------------------------- C9
\* C9: POST /api/invoices with a schema-valid body whose customerId names a
\* customer that is missing or owned by another user answers 404 at once
\* and writes nothing.
C9_PostForeignCustomerNotFound ==
  [][\A p \in Procs, u \in Users, body \in CreateBodies :
       (/\ PostInvoice(p, u, body)
        /\ createInvoiceWithItemsSchema(body)
        /\ \/ body.customerId \notin DOMAIN customers
           \/ customers[body.customerId].userId # u)
         => /\ resp'.op = "postInvoice"
            /\ resp'.status = 404
            /\ procs'[p].pc = "idle"
            /\ UNCHANGED tables]_vars

\* ---------------------------------------------------------------- C2
\* C2: with the secret configured, a webhook request whose raw body or
\* signature is missing or does not verify changes no table, whatever
\* invoice id its event carries, and is answered 400.  (Every webhook step
\* answers with the carried id, so the conjunct on resp'.id excludes no step;
\* it is tested before the action.)
C2_UnverifiedWebhookChangesNothing ==
  [][\A p \in Procs, a \in Arrivals, ev \in Events :
       (/\ a.secret
        /\ ~a.sigOk \/ ~a.rawBody
        /\ resp'.id = Carried(ev)
        /\ StripeWebhook(p, a.secret, a.rawBody, a.sigOk, ev))
         => /\ UNCHANGED tables
            /\ resp'.status = 400]_vars

\* an unverified request that carried the id of an unpaid invoice was
\* answered 400 and the invoice is still unpaid
C2_Witness ==
  /\ resp.op = "webhook"
  /\ resp.status = 400
  /\ resp.id \in DOMAIN invoices
  /\ ~invoices[resp.id].isPaid

\* ---------------------------------------------------------------- C4
\* C4: a read of an existing invoice, by getInvoice or getInvoices, returns
\* a header and items that a completed create or replace wrote together:
\* never the new header with no items, with part of the new items or with
\* old items.
C4_ReadSeesWholeVersion ==
  [][/\ \A p \in Procs :
          (GetInvoiceItems(p) /\ procs[p].id \in DOMAIN invoices)
            => Version(resp'.data.row, resp'.data.items) \in versions[procs[p].id]
     /\ \A p \in Procs, u \in Users :
          ListInvoices(p, u)
            => \A view \in resp'.data.invoices :
                 Version(view.row, view.items) \in versions[view.row.id]]_vars

\* ---------------------------------------------------------------- C5
\* C5: the amount getInvoice and getInvoices return for an invoice is the
\* sum of the amounts of its current items when it has at least one item,
\* whatever its amount column holds, and the amount column when it has none.
C5_AmountDerivation ==
  [][/\ \A p \in Procs :
          (GetInvoiceItems(p) /\ procs[p].id \in DOMAIN invoices)
            => LET i == procs[p].id
               IN resp'.data.amount =
                    IF Len(invoiceItems[i]) >= 1
                    THEN SumAmounts(invoiceItems[i])
                    ELSE invoices[i].amount
     /\ \A p \in Procs, u \in Users :
          ListInvoices(p, u)
            => /\ {view.row.id : view \in resp'.data.invoices} =
                    {i \in DOMAIN invoices : invoices[i].userId = u}
               /\ \A view \in resp'.data.invoices :
                    view.amount =
                      IF Len(invoiceItems[view.row.id]) >= 1
                      THEN SumAmounts(invoiceItems[view.row.id])
                      ELSE invoices[view.row.id].amount]_vars

\* the legacy invoice was given items and then read: the total is the sum of
\* the items, not the stored amount
C5_Witness ==
  /\ resp.op = "getInvoice"
  /\ resp.status = 200
  /\ resp.id = LegacyInvoiceId
  /\ Len(resp.data.items) >= 1
  /\ resp.data.row.amount = LegacyInvoice.amount
  /\ resp.data.amount = SumAmounts(resp.data.items)
  /\ resp.data.amount # LegacyInvoice.amount

\* ---------------------------------------------------------------- C10
\* C10: PATCH with a schema-valid body answers 404 on a missing invoice, 403
\* on an invoice of another user, and 404 on the caller's invoice when the
\* customer is missing or not the caller's; DELETE answers 403 on an
\* invoice of another user; none of them writes a table.
C10_PatchDeleteRejections ==
  [][/\ \A p \in Procs, u \in Users, i \in AllInvoiceIds, body \in ReplaceBodies :
          LET missing == i \notin DOMAIN invoices
              foreign == ~missing /\ invoices[i].userId # u
              badCustomer == /\ ~missing /\ ~foreign
                             /\ \/ body.customerId \notin DOMAIN customers
                                \/ customers[body.customerId].userId # u
          IN (/\ createInvoiceWithItemsSchema(body)
              /\ missing \/ foreign \/ badCustomer
              /\ PatchInvoice(p, u, i, body))
               => /\ resp'.op = "patchInvoice" /\ resp'.caller = u /\ resp'.id = i
                  /\ resp'.status = IF foreign THEN 403 ELSE 404
                  /\ procs'[p].pc = "idle"
                  /\ UNCHANGED tables
     /\ \A p \in Procs, u \in Users, i \in DOMAIN invoices :
          (invoices[i].userId # u /\ DeleteInvoice(p, u, i))
            => /\ resp'.op = "deleteInvoice" /\ resp'.caller = u /\ resp'.id = i
               /\ resp'.status = 403
               /\ UNCHANGED tables]_vars

\* user B's PATCH of an invoice of user A was answered 403 and the invoice
\* still has the header and items that were written together
C10_Witness ==
  /\ resp.op = "patchInvoice"
  /\ resp.status = 403
  /\ resp.caller = "B"
  /\ resp.id \in DOMAIN invoices
  /\ invoices[resp.id].userId = "A"
  /\ Version(invoices[resp.id], invoiceItems[resp.id]) \in versions[resp.id]

\* ---------------------------------------------------------------- C6
\* C6: while no user request writes isPaid, the verified checkout-completed
\* events delivered for an existing invoice make exactly one false -> true
\* transition of its isPaid when the first found it unpaid (none when it was
\* paid already) and leave it paid; every such delivery is answered 200,
\* writes only that flag and creates no invoice.  (The conjunct on resp'.id
\* holds of every webhook step and is tested before the action.)
C6_WebhookIdempotent ==
  [][/\ \A i \in DOMAIN invoices' :
          webhookLog'[i].delivered >= 1
            => /\ invoices'[i].isPaid
               /\ webhookLog'[i].transitions =
                    IF webhookLog'[i].first = "unpaid" THEN 1 ELSE 0
     /\ \A p \in Procs, ev \in Events :
          (/\ ev.type = CheckoutCompleted
           /\ Carried(ev) \in DOMAIN invoices
           /\ resp'.id = Carried(ev)
           /\ StripeWebhook(p, TRUE, TRUE, TRUE, ev))
            => /\ resp'.status = 200
               /\ DOMAIN invoices' = DOMAIN invoices
               /\ \A i \in DOMAIN invoices :
                    invoices'[i] = [invoices[i] EXCEPT !.isPaid =
                                      IF i = Carried(ev) THEN TRUE ELSE @]
               /\ UNCHANGED <<customers, invoiceItems, recurringInvoices,
                              recurringInvoiceItems>>]_vars

\* the same verified event was delivered twice for an invoice that was
\* unpaid: the second delivery was answered 200 and the invoice is paid
C6_Witness ==
  /\ resp.op = "webhook"
  /\ resp.status = 200
  /\ resp.id \in DOMAIN invoices
  /\ webhookLog[resp.id].delivered = MaxDeliveries
  /\ webhookLog[resp.id].first = "unpaid"
  /\ webhookLog[resp.id].transitions = 1
  /\ invoices[resp.id].isPaid

\* ---------------------------------------------------------------- C3
\* C3: a request of user u on a customer, an invoice or a template of another
\* user (get, patch, mark-paid, email, download, delete, generate) is answered
\* 403 or 404 at once and changes no table.
C3_OwnershipIsolation ==
  [][\A p \in Procs, u \in Users :
       LET Rejected == /\ resp'.caller = u
                       /\ resp'.status \in {403, 404}
                       /\ procs'[p].pc = "idle"
                       /\ UNCHANGED tables
       IN /\ \A c \in DOMAIN customers :
               (/\ customers[c].userId # u
                /\ \/ PatchCustomer(p, u, c, TRUE, "Beta")
                   \/ DeleteCustomer(p, u, c))
                 => Rejected
          /\ \A i \in DOMAIN invoices :
               (/\ invoices[i].userId # u
                /\ \/ GetInvoice(p, u, i)
                   \/ \E body \in OwnerBodies : PatchInvoice(p, u, i, body)
                   \/ MarkPaid(p, u, i, TRUE)
                   \/ EmailInvoice(p, u, i, TRUE)
                   \/ DownloadInvoice(p, u, i)
                   \/ DeleteInvoice(p, u, i))
                 => Rejected
          /\ \A t \in DOMAIN recurringInvoices :
               (/\ recurringInvoices[t].userId # u
                /\ \/ GetRecurringInvoice(p, u, t)
                   \/ \E body \in TemplatePatches : PatchRecurringInvoice(p, u, t, body)
                   \/ DeleteRecurringInvoice(p, u, t)
                   \/ \E today \in Today : Generate(p, u, t, today))
                 => Rejected]_vars

\* ---------------------------------------------------------------- C8
\* C8: generate on a template that is missing or that belongs to another
\* user is answered 404 at once: no invoice is inserted, no invoice number
\* is taken and the template keeps its nextInvoiceDate and lastInvoiceDate.
C8_GenerateForeignTemplateNotFound ==
  [][\A p \in Procs, u \in Users, t \in TemplateIds, today \in Today :
       (/\ \/ t \notin DOMAIN recurringInvoices
           \/ recurringInvoices[t].userId # u
        /\ Generate(p, u, t, today))
         => /\ resp'.op = "generate" /\ resp'.caller = u /\ resp'.id = t
            /\ resp'.status = 404
            /\ procs'[p].pc = "idle"
            /\ UNCHANGED <<tables, nextInvoiceId>>]_vars

C12_GeneratedItemsAreSnapshot ==
  [][\A t \in DOMAIN recurringInvoices :
       (\/ t \notin DOMAIN recurringInvoices'
        \/ recurringInvoiceItems'[t] # recurringInvoiceItems[t])
       => \A i \in DOMAIN invoices :
            invoices[i].recurringInvoiceId = t
            => /\ i \in DOMAIN invoices'
               /\ getInvoice(i)'.items = getInvoice(i).items
               /\ getInvoice(i)'.amount = getInvoice(i).amount]_vars

\* a template whose items were replaced after an invoice was generated from
\* it: the invoice holds the items of the time of generation
C12_Witness ==
  /\ resp.op = "patchRecurring" /\ resp.status = 200
  /\ resp.id \in DOMAIN recurringInvoiceItems
  /\ recurringInvoiceItems[resp.id] = ItemRows(ItemsTwo)
  /\ \E i \in DOMAIN invoices :
       /\ invoices[i].recurringInvoiceId = resp.id
       /\ getInvoice(i).items = ItemRows(ItemsOne)
       /\ getInvoice(i).amount = SumAmounts(ItemsOne)

\* C13: when the payment link or the email fails after createInvoiceWithItems
\* has written the invoice, POST /api/invoices answers 200 with the invoice,
\* and the invoice and the items of the request stay stored; when the email
\* fails in generate, the answer is 200 with the invoice, the invoice and
\* the copied items stay stored and the template is advanced.
C13_DeliveryFailureKeepsInvoice ==
  [][\A p \in Procs :
       procs[p].pc = "created"
       => LET i == procs[p].invoice
              kept == /\ i \in DOMAIN invoices'
                      /\ invoices'[i].date = procs[p].body.date
                      /\ invoices'[i].customerId = procs[p].body.customerId
                      /\ invoiceItems'[i] = ItemRows(procs[p].body.items)
          IN /\ \A linkOk \in BOOLEAN, mailOk \in BOOLEAN :
                  (~(linkOk /\ mailOk) /\ PostInvoiceDeliver(p, linkOk, mailOk))
                  => /\ resp'.op = "postInvoice" /\ resp'.status = 200
                     /\ resp'.id = i
                     /\ kept
                     /\ resp'.data = InvoiceView(invoices'[i], invoiceItems'[i])
             /\ GenerateAdvance(p, TRUE, FALSE)
                => /\ resp'.op = "generate" /\ resp'.status = 200
                   /\ resp'.data.invoice = i
                   /\ kept
                   /\ invoices'[i].recurringInvoiceId = procs[p].id
                   /\ recurringInvoices'[procs[p].id].lastInvoiceDate = procs[p].body.date
                   /\ recurringInvoices'[procs[p].id].nextInvoiceDate =
                        calculateNextInvoiceDate(procs[p].row.frequency,
                                                 procs[p].body.date)]_vars

\* a generate answered 200 although its email failed, and a posted invoice
\* answered 200 without a payment link
C13_Witness ==
  /\ resp.status = 200 /\ resp.mail = "failed"
  /\ \/ /\ resp.op = "generate"
        /\ resp.data.invoice \in DOMAIN invoices
        /\ invoiceItems[resp.data.invoice] # <<>>
        /\ recurringInvoices[resp.id].lastInvoiceDate # NullDate
     \/ /\ resp.op = "postInvoice"
        /\ resp.id \in DOMAIN invoices
        /\ resp.id \notin DOMAIN paymentLinks
        /\ invoiceItems[resp.id] # <<>>

\* C14: generate on a template whose isActive is false answers 400 and ends
\* the request there: no table changes (no invoice, no items, the template's
\* nextInvoiceDate and lastInvoiceDate as before), no id is consumed and no
\* payment link is made.
C14_InactiveTemplateRejected ==
  [][\A p \in Procs, t \in DOMAIN recurringInvoices, today \in GenerateDays :
       (~recurringInvoices[t].isActive /\ Generate(p, "A", t, today))
       => /\ resp'.op = "generate" /\ resp'.id = t
          /\ resp'.status = 400
          /\ procs'[p].pc = "idle"
          /\ UNCHANGED <<tables, nextInvoiceId, paymentLinks>>]_vars

\* a generate rejected on a template that was generated from once and then
\* deactivated
C14_Witness ==
  /\ resp.op = "generate" /\ resp.status = 400
  /\ resp.id \in DOMAIN recurringInvoices
  /\ ~recurringInvoices[resp.id].isActive
  /\ recurringInvoices[resp.id].lastInvoiceDate # NullDate
  /\ AllIdle

\* C15: in every reachable state of the tables, getNextInvoiceNumber(u) is
\* 1001 when user u has no invoice, and otherwise one more than a number of
\* one of u's invoices that no number of u's invoices exceeds; the rows of
\* other users do not enter.
C15_NextInvoiceNumber ==
  \A u \in Users :
    LET own == {i \in DOMAIN invoices : invoices[i].userId = u}
        n == getNextInvoiceNumber(u)
    IN IF own = {}
       THEN n = 1001
       ELSE /\ \E i \in own : invoices[i].invoiceNumber = n - 1
            /\ \A i \in own : invoices[i].invoiceNumber < n

\* user B's first request holds 1001 while user A, who owns an invoice
\* numbered 1001, would be given 1002
C15_Witness ==
  /\ \E p \in Procs :
       /\ procs[p].pc = "insertInvoice" /\ procs[p].caller = "B"
       /\ procs[p].invoiceNumber = 1001
  /\ \E i \in DOMAIN invoices :
       invoices[i].userId = "A" /\ invoices[i].invoiceNumber = 1001
  /\ \A i \in DOMAIN invoices : invoices[i].userId = "A"
  /\ getNextInvoiceNumber("A") = 1002
  /\ getNextInvoiceNumber("B") = 1001

\* C16: with one request at a time, invoice ids are handed out in the order
\* in which numbers are assigned; of two invoices of the same user, deleted
\* or not, the one inserted later carries the greater invoice number.
C16_NumbersStrictlyIncreasing ==
  \A i \in DOMAIN versions, j \in DOMAIN versions :
    i < j
    => \A v \in versions[i], w \in versions[j] :
         v.userId = w.userId => v.invoiceNumber < w.invoiceNumber

\* C17: calculateNextInvoiceDate returns the day 7 days later for weekly,
\* and for monthly, quarterly and yearly the same day-of-month 1 month, 3
\* months and 1 year later, or the last day of that month when the month is
\* shorter.
C17_NextOccurrenceClamps ==
  resp.op = "nextOccurrence"
  => LET f == resp.data.frequency
         y == resp.data.currentDate[1]
         m == resp.data.currentDate[2]
         d == resp.data.currentDate[3]
         Min(a, b) == IF a <= b THEN a ELSE b
         Clamped(yy, mm) ==
           <<yy + ((mm - 1) \div 12), ((mm - 1) % 12) + 1,
             Min(d, DaysInMonth(yy + ((mm - 1) \div 12), ((mm - 1) % 12) + 1))>>
     IN resp.data.nextDate =
          CASE f = "weekly" ->
                 IF d + 7 <= DaysInMonth(y, m) THEN <<y, m, d + 7>>
                 ELSE <<y + (m \div 12), (m % 12) + 1, d + 7 - DaysInMonth(y, m)>>
            [] f = "monthly" -> Clamped(y, m + 1)
            [] f = "quarterly" -> Clamped(y, m + 3)
            [] f = "yearly" -> Clamped(y + 1, m)

\* C18: the first generate of a monthly template that started on 2025-01-15,
\* on whichever day it is called, dates the invoice with the day of the call
\* and leaves the template with nextInvoiceDate 2025-02-15.
C18_FirstGenerateNextDate ==
  [][\A p \in Procs :
       (/\ procs[p].op = "generate" /\ procs[p].pc = "created"
        /\ procs'[p].pc = "idle"
        /\ resp'.op = "generate" /\ resp'.status = 200
        /\ procs[p].id \in DOMAIN recurringInvoices
        /\ recurringInvoices[procs[p].id].frequency = "monthly"
        /\ recurringInvoices[procs[p].id].startDate = <<2025, 1, 15>>
        /\ recurringInvoices[procs[p].id].lastInvoiceDate = NullDate)
       => /\ invoices'[procs[p].invoice].date = procs[p].body.date
          /\ recurringInvoices'[procs[p].id].nextInvoiceDate = <<2025, 2, 15>>]_vars

\* C19: the payment link of an invoice embeds the id of that invoice, and a
\* verified checkout-completed event sets isPaid of the invoice it names (in
\* the session metadata or, without one there, in the metadata of its
\* payment intent) and of no other: every other invoice row, every other
\* column of the named row and all line items stay as they were.
C19_WebhookPaysNamedInvoice ==
  [][resp'.op = "webhook"
     => /\ \A j \in DOMAIN invoices :
             invoices[j].stripePaymentLinkId # NullId
             => paymentLinks[invoices[j].stripePaymentLinkId].invoiceId = j
        /\ \A p \in Procs, ev \in Events :
             (ev.type = CheckoutCompleted /\ StripeWebhook(p, TRUE, TRUE, TRUE, ev))
             => LET i == IF ev.sessionInvoiceId # NullId THEN ev.sessionInvoiceId
                         ELSE IF ev.hasPaymentIntent /\ ev.retrieveOk
                         THEN ev.intentInvoiceId
                         ELSE NullId
                IN /\ invoiceItems' = invoiceItems
                   /\ DOMAIN invoices' = DOMAIN invoices
                   /\ \A j \in DOMAIN invoices :
                        invoices'[j] = IF j = i
                                       THEN [invoices[j] EXCEPT !.isPaid = TRUE]
                                       ELSE invoices[j]]_vars

\* the event of the payment link of one unpaid invoice was applied: that
\* invoice is paid and the other invoice, with a link of its own, is not
C19_Witness ==
  /\ resp.op = "webhook" /\ resp.status = 200
  /\ resp.id \in DOMAIN invoices
  /\ invoices[resp.id].isPaid
  /\ invoices[resp.id].stripePaymentLinkId \in DOMAIN paymentLinks
  /\ paymentLinks[invoices[resp.id].stripePaymentLinkId].invoiceId = resp.id
  /\ webhookLog[resp.id].transitions = 1
  /\ invoiceItems[resp.id] # <<>>
  /\ \E j \in DOMAIN invoices :
       /\ j # resp.id
       /\ ~invoices[j].isPaid
       /\ invoices[j].stripePaymentLinkId \in DOMAIN paymentLinks

\* C20: a verified checkout-completed event that names no invoice, neither
\* in the session metadata nor in the metadata of a payment intent that can
\* be read, is answered 400; one that names an invoice that is not stored is
\* answered 404; in both cases no invoice row and no item changes.
C20_WebhookWithoutInvoice ==
  [][resp'.op = "webhook"
     => \A p \in Procs, ev \in Events :
          (/\ ev.type = CheckoutCompleted
           /\ ev.sessionInvoiceId = NullId => (ev.hasPaymentIntent => ev.retrieveOk)
           /\ StripeWebhook(p, TRUE, TRUE, TRUE, ev))
          => LET i == IF ev.sessionInvoiceId # NullId THEN ev.sessionInvoiceId
                      ELSE IF ev.hasPaymentIntent THEN ev.intentInvoiceId
                      ELSE NullId
             IN /\ i = NullId
                   => resp'.status = 400 /\ UNCHANGED <<invoices, invoiceItems>>
                /\ (i # NullId /\ i \notin DOMAIN invoices)
                   => resp'.status = 404 /\ UNCHANGED <<invoices, invoiceItems>>]_vars

\* an event naming an invoice that was created and then deleted was answered
\* 404 while another invoice is stored and unpaid
C20_Witness ==
  /\ resp.op = "webhook" /\ resp.status = 404
  /\ resp.id \notin DOMAIN invoices
  /\ resp.id \in DOMAIN versions
  /\ \E j \in DOMAIN invoices : ~invoices[j].isPaid

\* C21: every invoice row that a step inserts has isPaid = false, and the
\* isPaid of a stored invoice turns true only in a step of mark-paid, of the
\* header update of PATCH /api/invoices/:id or of the webhook.
C21_CreatedUnpaid ==
  [][/\ \A i \in DOMAIN invoices' \ DOMAIN invoices : ~invoices'[i].isPaid
     /\ \A i \in DOMAIN invoices' \cap DOMAIN invoices :
          (invoices'[i].isPaid /\ ~invoices[i].isPaid)
          => \/ resp'.op \in {"markPaid", "webhook"} /\ resp'.id = i
             \/ \E p \in Procs : procs[p].op = "patchInvoice" /\ procs[p].id = i]_vars

\* C22: a template starts with nextInvoiceDate = startDate and no
\* lastInvoiceDate, and afterwards a step changes its nextInvoiceDate or its
\* lastInvoiceDate only when it is the step of a generate on that template
\* that advances it; no PATCH /api/recurring-invoices/:id step does.
C22_ScheduleMovesOnlyByGenerate ==
  [][/\ \A t \in DOMAIN recurringInvoices' \ DOMAIN recurringInvoices :
          /\ recurringInvoices'[t].nextInvoiceDate = recurringInvoices'[t].startDate
          /\ recurringInvoices'[t].lastInvoiceDate = NullDate
     /\ \A t \in DOMAIN recurringInvoices' \cap DOMAIN recurringInvoices :
          (\/ recurringInvoices'[t].nextInvoiceDate # recurringInvoices[t].nextInvoiceDate
           \/ recurringInvoices'[t].lastInvoiceDate # recurringInvoices[t].lastInvoiceDate)
          => \E p \in Procs :
               /\ procs[p].op = "generate" /\ procs[p].pc = "created"
               /\ procs[p].id = t]_vars

\* C23: every stored invoice whose createInvoiceWithItems call has returned
\* has at least one line item.
C23_CreatedWithItems ==
  \A i \in DOMAIN invoices :
    (\A p \in Procs : ~(procs[p].pc = "insertItems" /\ procs[p].invoice = i))
    => Len(getInvoiceItems(i)) >= 1

\* C24: DELETE /api/invoices/:id by the owner of a stored invoice answers
\* 204; afterwards the invoice row and its item rows are gone, and the
\* customers, every other invoice with its items, and the templates with
\* their items are as before.
C24_DeleteRemovesInvoiceOnly ==
  [][resp'.op = "deleteInvoice"
     => \A p \in Procs, i \in DOMAIN invoices :
          (invoices[i].userId = "A" /\ DeleteInvoice(p, "A", i))
          => /\ resp'.status = 204
             /\ i \notin DOMAIN invoices'
             /\ i \notin DOMAIN invoiceItems'
             /\ DOMAIN invoices' = DOMAIN invoices \ {i}
             /\ \A j \in DOMAIN invoices \ {i} :
                  /\ invoices'[j] = invoices[j]
                  /\ j \in DOMAIN invoiceItems /\ j \in DOMAIN invoiceItems'
                  /\ invoiceItems'[j] = invoiceItems[j]
             /\ UNCHANGED <<customers, recurringInvoices, recurringInvoiceItems>>]_vars

\* a generated invoice with items was deleted: its template, its customer
\* and the customer's posted invoice are stored
C24_Witness ==
  /\ resp.op = "deleteInvoice" /\ resp.status = 204
  /\ resp.id \notin DOMAIN invoices /\ resp.id \notin DOMAIN invoiceItems
  /\ \E v \in versions[resp.id] : v.items # <<>> /\ v.customerId \in DOMAIN customers
  /\ \E t \in DOMAIN recurringInvoices : recurringInvoices[t].lastInvoiceDate # NullDate
  /\ \E j \in DOMAIN invoices :
       /\ invoices[j].recurringInvoiceId = NullId
       /\ invoiceItems[j] # <<>>
       /\ \E v \in versions[resp.id] : v.customerId = invoices[j].customerId

\* C25: in every reachable state the item rows belong to a stored invoice or
\* template, every invoice and every template references a stored customer
\* and a user, and the recurringInvoiceId of every invoice is null or names
\* a stored template.
C25_ReferentialIntegrity ==
  /\ DOMAIN invoiceItems \subseteq DOMAIN invoices
  /\ DOMAIN recurringInvoiceItems \subseteq DOMAIN recurringInvoices
  /\ \A i \in DOMAIN invoices :
       /\ invoices[i].customerId \in DOMAIN customers
       /\ invoices[i].userId \in Users
       /\ \/ invoices[i].recurringInvoiceId = NullId
          \/ invoices[i].recurringInvoiceId \in DOMAIN recurringInvoices
  /\ \A t \in DOMAIN recurringInvoices :
       /\ recurringInvoices[t].customerId \in DOMAIN customers
       /\ recurringInvoices[t].userId \in Users

\* the template of a generated invoice was deleted: the invoice and its
\* items are stored and its reference is null
C25_Witness ==
  /\ resp.op = "deleteRecurring"
  /\ resp.id \notin DOMAIN recurringInvoices
  /\ resp.id \notin DOMAIN recurringInvoiceItems
  /\ \E i \in DOMAIN invoices :
       /\ invoices[i].recurringInvoiceId = NullId
       /\ invoiceItems[i] # <<>>
       /\ \E v \in versions[i] : v.date = <<2025, 1, 31>>

\* C26: in every reachable state the customer of each invoice and of each
\* template belongs to the user who owns the invoice or the template.
C26_CustomerOfSameUser ==
  /\ \A i \in DOMAIN invoices :
       invoices[i].customerId \in DOMAIN customers
       => customers[invoices[i].customerId].userId = invoices[i].userId
  /\ \A t \in DOMAIN recurringInvoices :
       recurringInvoices[t].customerId \in DOMAIN customers
       => customers[recurringInvoices[t].customerId].userId = recurringInvoices[t].userId

\* C27: while no request is in flight, the unit amount of the payment link
\* of every invoice that has one equals the effective amount getInvoice
\* returns for the invoice.
C27_LinkChargesEffectiveAmount ==
  AllIdle
  => \A i \in DOMAIN invoices :
       invoices[i].stripePaymentLinkId # NullId
       => paymentLinks[invoices[i].stripePaymentLinkId].unit_amount
            = getInvoice(i).amount

\* C28: when a generate request ends, with whatever answer, the invoice it
\* inserted (dated T, referencing the template) is stored only if the
\* template's lastInvoiceDate is T or a later day.
C28_GenerateIsOneUnit ==
  [][\A p \in Procs :
       (procs[p].op = "generate" /\ procs'[p].pc = "idle")
       => LET t == procs[p].id
              T == procs[p].body.date
              i == procs[p].invoice
              NotBefore(a, b) ==
                \/ a[1] > b[1]
                \/ a[1] = b[1] /\ a[2] > b[2]
                \/ a[1] = b[1] /\ a[2] = b[2] /\ a[3] >= b[3]
          IN (/\ i \in DOMAIN invoices'
              /\ invoices'[i].recurringInvoiceId = t
              /\ invoices'[i].date = T)
             => /\ t \in DOMAIN recurringInvoices'
                /\ recurringInvoices'[t].lastInvoiceDate # NullDate
                /\ NotBefore(recurringInvoices'[t].lastInvoiceDate, T)]_vars

\* C29: a generate that answers 200, called on a day T that is not before
\* the day of the template's last generate, leaves the template with a
\* nextInvoiceDate that is not before the one it held.
C29_NextDateNeverMovesBack ==
  [][\A p \in Procs :
       (/\ procs[p].op = "generate" /\ procs[p].pc = "created"
        /\ procs'[p].pc = "idle"
        /\ resp'.op = "generate" /\ resp'.status = 200
        /\ procs[p].id \in DOMAIN recurringInvoices)
       => LET t == procs[p].id
              T == procs[p].body.date
              NotBefore(a, b) ==
                \/ a[1] > b[1]
                \/ a[1] = b[1] /\ a[2] > b[2]
                \/ a[1] = b[1] /\ a[2] = b[2] /\ a[3] >= b[3]
          IN (\/ recurringInvoices[t].lastInvoiceDate = NullDate
              \/ NotBefore(T, recurringInvoices[t].lastInvoiceDate))
             => NotBefore(recurringInvoices'[t].nextInvoiceDate,
                          recurringInvoices[t].nextInvoiceDate)]_vars

\* C30: for each of the four frequencies and every day d of the calendar,
\* calculateNextInvoiceDate(frequency, d) is a day strictly after d, so that
\* the nextInvoiceDate a generate writes is after the lastInvoiceDate it
\* writes with it.
C30_NextDateAfterLastDate ==
  resp.op = "nextOccurrence"
  => LET d == resp.data.currentDate
         n == resp.data.nextDate
     IN /\ resp.data.frequency \in Frequencies
        /\ n = calculateNextInvoiceDate(resp.data.frequency, d)
        /\ n[2] \in 1..12 /\ n[3] \in 1..DaysInMonth(n[1], n[2])
        /\ \/ n[1] > d[1]
           \/ n[1] = d[1] /\ n[2] > d[2]
           \/ n[1] = d[1] /\ n[2] = d[2] /\ n[3] > d[3]

\* the next date of a yearly template from 29 February of a leap year
C30_Witness ==
  /\ resp.op = "nextOccurrence"
  /\ resp.data.frequency = "yearly"
  /\ resp.data.currentDate = <<2024, 2, 29>>
  /\ resp.data.nextDate[1] = 2025
====
